---- MODULE Spec2Model ----
(***************************************************************************)
(* Model of dopt.optimizers.optimizer.Optimizer: the observation ledger,   *)
(* the pending-candidate list, id allocation, the wire-message classifier  *)
(* and the run loop.                                                        *)
(*                                                                         *)
(* Text (a received batch, a ledger line, a reply) is a sequence of        *)
(* tokens; json.dumps / json.loads / split / strip are operators on token  *)
(* sequences.  In-memory values are records.                               *)
(***************************************************************************)
EXTENDS Integers, Sequences, FiniteSets, TLC

(***************************************************************************)
(* Bounds of the model                                                     *)
(***************************************************************************)
\* largest candidate id the model lets the loop allocate
MaxId == 4
\* largest candidate id carried by a message on the wire
MaxWireId == 1
\* largest number of messages and newlines in one received batch
MaxBlob == 4
\* largest number of lines of the ledger file
MaxLedger == 2
\* largest number of lines of the ledger file the first Optimizer finds
MaxInitialLedger == 1

\* the stopping threshold of the model
MaxObservations == 1

\* Optimizer.MAX_OBSERVATIONS: 500 in the source, scaled down to the threshold
\* of the model so that the stopping predicate becomes false within the bounds
MAX_OBSERVATIONS == MaxObservations

HEADER_REMOVE_CANDIDATE == "Remove: "

(***************************************************************************)
(* Values                                                                  *)
(***************************************************************************)
\* the parameter value generate_candidate proposes (tenths: 2 is 0.2)
XValues == {2}
\* parameter values of the candidates named on the wire: the one proposed and
\* one that no reply carried
WireXValues == XValues \cup {5}
\* a result payload whose text contains the remove marker
MarkerPayload == "\"see Remove: 1\""
\* result payloads of the observations on the wire (JSON scalars, kept as text)
Results == {"0.9", MarkerPayload}
\* the candidate of the observations on the wire that carry MarkerPayload
MarkerCandidate == [x |-> 2, id |-> 1]

Candidates == [x : XValues, id : 1..MaxId]
WireCandidates == [x : WireXValues, id : 1..MaxWireId]

Range(s) == {s[i] : i \in 1..Len(s)}

(***************************************************************************)
(* json.dumps / json.loads on the shapes the program handles               *)
(***************************************************************************)
Digits == <<"0", "1", "2", "3", "4", "5", "6", "7", "8", "9">>
NumStrs == Range(Digits)
NumToStr(n) == Digits[n + 1]
StrToNum(s) == (CHOOSE i \in 1..Len(Digits) : Digits[i] = s) - 1
BoolToStr(b) == IF b THEN "true" ELSE "false"
StrToBool(s) == s = "true"

dumps_candidate(c) ==
    <<"{", "x", NumToStr(c.x), "id", NumToStr(c.id), "}">>

\* json.dumps of a dict writes the keys the dict has
dumps_observation(o) ==
    <<"{">>
        \o (IF "candidate" \in DOMAIN o
            THEN <<"candidate">> \o dumps_candidate(o.candidate) ELSE <<>>)
        \o (IF "result" \in DOMAIN o THEN <<"result", o.result>> ELSE <<>>)
        \o (IF "contention_failure" \in DOMAIN o
            THEN <<"contention_failure", BoolToStr(o.contention_failure)>>
            ELSE <<>>)
        \o <<"}">>

dumps_reply(c) == <<"{", "candidate">> \o dumps_candidate(c) \o <<"}">>

IsCandidateJSON(t) ==
    /\ Len(t) = 6
    /\ t[1] = "{" /\ t[2] = "x" /\ t[3] \in NumStrs
    /\ t[4] = "id" /\ t[5] \in NumStrs /\ t[6] = "}"

loads_candidate(t) == [x |-> StrToNum(t[3]), id |-> StrToNum(t[5])]

IsObservationJSON(t) ==
    /\ Len(t) = 13
    /\ t[1] = "{" /\ t[2] = "candidate"
    /\ IsCandidateJSON(SubSeq(t, 3, 8))
    /\ t[9] = "result"
    /\ t[11] = "contention_failure" /\ t[12] \in {"true", "false"}
    /\ t[13] = "}"

loads_observation(t) ==
    [candidate |-> loads_candidate(SubSeq(t, 3, 8)),
     result |-> t[10],
     contention_failure |-> StrToBool(t[12])]

\* a JSON object with the fields result and contention_failure only
IsNoCandidateJSON(t) ==
    /\ Len(t) = 6
    /\ t[1] = "{" /\ t[2] = "result"
    /\ t[4] = "contention_failure" /\ t[5] \in {"true", "false"}
    /\ t[6] = "}"

\* a JSON object with the fields candidate and contention_failure only
IsNoResultJSON(t) ==
    /\ Len(t) = 11
    /\ t[1] = "{" /\ t[2] = "candidate"
    /\ IsCandidateJSON(SubSeq(t, 3, 8))
    /\ t[9] = "contention_failure" /\ t[10] \in {"true", "false"}
    /\ t[11] = "}"

\* a JSON object with the fields candidate and result only
IsNoFlagJSON(t) ==
    /\ Len(t) = 11
    /\ t[1] = "{" /\ t[2] = "candidate"
    /\ IsCandidateJSON(SubSeq(t, 3, 8))
    /\ t[9] = "result"
    /\ t[11] = "}"

\* the texts json.loads turns into a dict with some of the three fields
IsObjectJSON(t) ==
    \/ IsObservationJSON(t)
    \/ IsNoCandidateJSON(t)
    \/ IsNoResultJSON(t)
    \/ IsNoFlagJSON(t)

\* json.loads of such a text: a dict with the fields the text has
loads_object(t) ==
    CASE IsObservationJSON(t) -> loads_observation(t)
      [] IsNoCandidateJSON(t) ->
            [result |-> t[3], contention_failure |-> StrToBool(t[5])]
      [] IsNoResultJSON(t) ->
            [candidate |-> loads_candidate(SubSeq(t, 3, 8)),
             contention_failure |-> StrToBool(t[10])]
      [] IsNoFlagJSON(t) ->
            [candidate |-> loads_candidate(SubSeq(t, 3, 8)),
             result |-> t[10]]

\* the texts json.loads accepts
IsJSON(t) == t = <<"{}">> \/ IsCandidateJSON(t) \/ IsObjectJSON(t)

(***************************************************************************)
(* str.split("\n"), str.strip(), the `in` test and the slice               *)
(***************************************************************************)
RECURSIVE SplitFrom(_, _, _)
\* segments of blob from position i on, cur being the segment under way
SplitFrom(blob, i, cur) ==
    IF i > Len(blob) THEN <<cur>>
    ELSE IF blob[i] = "\n" THEN <<cur>> \o SplitFrom(blob, i + 1, <<>>)
    ELSE SplitFrom(blob, i + 1, Append(cur, blob[i]))

Split(blob) == SplitFrom(blob, 1, <<>>)

\* responses.split("\n")[:-1]
BatchLines(blob) == SubSeq(Split(blob), 1, Len(Split(blob)) - 1)

RECURSIVE Strip(_)
Strip(t) ==
    IF t = <<>> THEN t
    ELSE IF Head(t) = " " THEN Strip(Tail(t))
    ELSE IF t[Len(t)] = " " THEN Strip(SubSeq(t, 1, Len(t) - 1))
    ELSE t

\* the text of token tok contains the marker
TokenHasMarker(tok) == tok \in {HEADER_REMOVE_CANDIDATE, MarkerPayload}

\* HEADER_REMOVE_CANDIDATE in response
HasMarker(response) == \E i \in 1..Len(response) : TokenHasMarker(response[i])

\* what is left of a token sequence whose first 8 characters were cut off
\* in the middle of its leading tokens: no JSON text starts like this
Truncated == "?"

\* response[len(HEADER_REMOVE_CANDIDATE):]
SliceHeader(response) ==
    IF response # <<>> /\ Head(response) = HEADER_REMOVE_CANDIDATE
    THEN Tail(response)
    ELSE <<Truncated>> \o (IF response = <<>> THEN <<>> ELSE Tail(response))

(***************************************************************************)
(* Messages of the wire                                                    *)
(***************************************************************************)
AckLine == <<"{}">>
RemoveLine(c) == <<HEADER_REMOVE_CANDIDATE>> \o dumps_candidate(c)
ObservationLine(o) == dumps_observation(o)

WireObservations ==
    {o \in [candidate : WireCandidates, result : Results,
            contention_failure : BOOLEAN] :
        o.result = MarkerPayload => o.candidate = MarkerCandidate}

\* JSON objects that lack one of the fields of an observation
PartialLines ==
    {dumps_observation([result |-> "0.9", contention_failure |-> FALSE]),
     dumps_observation([result |-> "0.9", contention_failure |-> TRUE]),
     dumps_observation([candidate |-> MarkerCandidate,
                        contention_failure |-> FALSE]),
     dumps_observation([candidate |-> MarkerCandidate, result |-> "0.9"])}

Lines ==
    {AckLine, <<"{}", " ">>, <<"garbage">>}
        \cup {RemoveLine(c) : c \in WireCandidates}
        \cup {ObservationLine(o) : o \in WireObservations}
        \cup PartialLines

\* A received batch is a sequence of messages and newlines.  The text of a
\* message is drawn when the for loop reaches it (a message has no influence
\* on the handling of the messages before it), so a batch in the state is its
\* layout: Message stands for one non-empty message text.
Message == "msg"

Blobs ==
    {b \in UNION {[1..n -> {Message, "\n"}] : n \in 0..MaxBlob} :
        \A i \in 1..(Len(b) - 1) : ~(b[i] = Message /\ b[i + 1] = Message)}

(***************************************************************************)
(* The ledger file                                                         *)
(***************************************************************************)
\* observations a ledger written by earlier runs holds
StoredObservations ==
    [candidate : [x : {5}, id : 1..MaxId], result : {"0.9"},
     contention_failure : {FALSE}]

DistinctIds(os) ==
    \A i, j \in 1..Len(os) : i # j => os[i].candidate.id # os[j].candidate.id

InitialLedgers ==
    {os \in UNION {[1..n -> StoredObservations] : n \in 0..MaxInitialLedger} :
        DistinctIds(os)}

NoFile == [exists |-> FALSE, lines |-> <<>>]

(***************************************************************************)
(* State                                                                   *)
(***************************************************************************)
VARIABLES
    pc,                  \* "new", "loop", "batch", "returned", "raised"
    file,                \* the ledger file: [exists, lines]
    observations,        \* self.observations
    pending_candidates,  \* self.pending_candidates
    responses,           \* the batch last received (its layout)
    idx,                 \* position of the for loop in the lines of the batch
    response,            \* the line the for loop handled last, stripped
    sent,                \* replies sent since the last receive
    error                \* the exception raised last in run, or "none"

vars == <<pc, file, observations, pending_candidates, responses, idx,
          response, sent, error>>

Init ==
    /\ pc = "new"
    /\ file \in {NoFile}
            \cup {[exists |-> TRUE,
                   lines |-> [i \in 1..Len(os) |-> dumps_observation(os[i])]]
                  : os \in InitialLedgers}
    /\ observations = <<>>
    /\ pending_candidates = <<>>
    /\ responses = <<>>
    /\ idx = 1
    /\ response = <<>>
    /\ sent = <<>>
    /\ error = "none"

(***************************************************************************)
(* Operations                                                              *)
(***************************************************************************)
\* Optimizer._load_observations
load_observations(f) ==
    IF f.exists
    THEN [i \in 1..Len(f.lines) |-> loads_object(f.lines[i])]
    ELSE <<>>

\* _save_observation that opens the file with "w"
save_observation_truncating(f, observation) ==
    [exists |-> TRUE, lines |-> <<dumps_observation(observation)>>]

\* _save_observation that writes nothing
save_observation_skipped(f, observation) == f

\* Optimizer._save_observation
save_observation(f, observation) ==
    [exists |-> TRUE, lines |-> Append(f.lines, dumps_observation(observation))]

\* is_running that stops one observation early
is_running_off_by_one == ~(Len(observations) >= MAX_OBSERVATIONS)

\* Optimizer.is_running
is_running == ~(Len(observations) > MAX_OBSERVATIONS)

RECURSIVE generate_id_from(_, _)
\* the while loop of generate_id, from i on
generate_id_from(i, current_ids) ==
    IF i <= Len(current_ids) + 1
    THEN IF i \notin Range(current_ids) THEN i
         ELSE generate_id_from(i + 1, current_ids)
    ELSE i

\* every o["candidate"]["id"] that generate_id reads exists
has_candidate_ids(obs) ==
    \A i \in 1..Len(obs) : "candidate" \in DOMAIN obs[i]

\* generate_id that forgets the ids of the observations
generate_id_pending_only(obs, pend) ==
    generate_id_from(1, [i \in 1..Len(pend) |-> pend[i].id])

\* generate_id that never looks for a gap
generate_id_no_scan(obs, pend) == Len(obs) + Len(pend) + 1

\* Optimizer.generate_id
generate_id(obs, pend) ==
    generate_id_from(1, [i \in 1..Len(obs) |-> obs[i].candidate.id]
                            \o [i \in 1..Len(pend) |-> pend[i].id])

\* a membership test that compares the ids only
is_pending_by_id(candidate, pend) == \E i \in 1..Len(pend) : pend[i].id = candidate.id

\* the membership test of remove_pending_candidate
is_pending(candidate, pend) == candidate \in Range(pend)

\* a filter that keeps the candidate instead of dropping it
remove_pending_candidate_keep(candidate, pend) ==
    SelectSeq(pend, LAMBDA c : c = candidate)

\* a filter that compares the parameter values and forgets the id
remove_pending_candidate_same_x(candidate, pend) ==
    SelectSeq(pend, LAMBDA c : c.x # candidate.x)

\* the list remove_pending_candidate leaves
remove_pending_candidate(candidate, pend) ==
    SelectSeq(pend, LAMBDA c : c # candidate)

\* Optimizer.__init__
Construct ==
    /\ pc = "new"
    /\ observations' = load_observations(file)
    /\ file' = [exists |-> TRUE, lines |-> file.lines]
    /\ pending_candidates' = <<>>
    /\ pc' = "loop"
    /\ UNCHANGED <<responses, idx, response, sent, error>>

\* the for loop of run is at a line of the batch
AtLine == pc = "batch" /\ idx <= Len(BatchLines(responses))

\* the texts the line under the for loop may have
LineTexts == IF BatchLines(responses)[idx] = <<>> THEN {<<>>} ELSE Lines

\* an exception leaves run
Raise(e) == pc' = "raised" /\ error' = e

\* a reply that is sent without the candidate being appended to the pending
Reply_not_appended(obs, pend) ==
    /\ generate_id(obs, pend) <= MaxId
    /\ \E x \in XValues :
          LET candidate == [x |-> x, id |-> generate_id(obs, pend)]
          IN  /\ pending_candidates' = pend
              /\ sent' = Append(sent, dumps_reply(candidate))

\* a reply whose candidate replaces the pending list
Reply_replacing(obs, pend) ==
    /\ generate_id(obs, pend) <= MaxId
    /\ \E x \in XValues :
          LET candidate == [x |-> x, id |-> generate_id(obs, pend)]
          IN  /\ pending_candidates' = <<candidate>>
              /\ sent' = Append(sent, dumps_reply(candidate))

\* a reply that is kept for a later write instead of being sent
Reply_buffered(obs, pend) ==
    /\ generate_id(obs, pend) <= MaxId
    /\ \E x \in XValues :
          LET candidate == [x |-> x, id |-> generate_id(obs, pend)]
          IN  /\ pending_candidates' = Append(pend, candidate)
              /\ sent' = sent

\* lines 143-148 of run: generate_candidate, generate_id, append, send
Reply(obs, pend) ==
    /\ generate_id(obs, pend) <= MaxId
    /\ \E x \in XValues :
          LET candidate == [x |-> x, id |-> generate_id(obs, pend)]
          IN  /\ pending_candidates' = Append(pend, candidate)
              /\ sent' = Append(sent, dumps_reply(candidate))

\* run, the `while self.is_running()` test passes and recv returns a batch
Recv ==
    /\ pc = "loop"
    /\ is_running
    /\ \E blob \in Blobs : responses' = blob
    /\ idx' = 1
    /\ response' = <<>>
    /\ sent' = <<>>
    /\ pc' = "batch"
    /\ UNCHANGED <<file, observations, pending_candidates, error>>

\* a receive whose EOFError is not caught
RecvEOF_uncaught ==
    /\ pc = "loop"
    /\ is_running
    /\ pc' = "raised"
    /\ error' = "EOFError"
    /\ UNCHANGED <<file, observations, pending_candidates, responses, idx,
                   response, sent>>

\* run, recv raises EOFError, which run catches: return
RecvEOF ==
    /\ pc = "loop"
    /\ is_running
    /\ pc' = "returned"
    /\ error' = "EOFError"
    /\ UNCHANGED <<file, observations, pending_candidates, responses, idx,
                   response, sent>>

\* run, the `while self.is_running()` test fails: run returns
Stop ==
    /\ pc = "loop"
    /\ ~is_running
    /\ pc' = "returned"
    /\ UNCHANGED <<file, observations, pending_candidates, responses, idx,
                   response, sent, error>>

\* run, the branch `response == "{}"`
HandleAck ==
    /\ AtLine
    /\ \E line \in LineTexts :
          /\ response' = Strip(line)
          /\ response' = <<"{}">>
    /\ IF ~has_candidate_ids(observations)
       THEN /\ Raise("KeyError")
            /\ UNCHANGED <<file, observations, pending_candidates,
                           responses, idx, sent>>
       ELSE /\ Reply(observations, pending_candidates)
            /\ idx' = idx + 1
            /\ UNCHANGED <<pc, file, observations, responses, error>>

\* run, the branch `HEADER_REMOVE_CANDIDATE in response`
HandleRemove ==
    /\ AtLine
    /\ \E line \in LineTexts :
          /\ response' = Strip(line)
          /\ response' # <<"{}">>
          /\ HasMarker(response')
    /\ LET text == Strip(SliceHeader(response'))
       IN  IF ~IsJSON(text)
           THEN /\ Raise("JSONDecodeError")
                /\ UNCHANGED <<file, observations, pending_candidates,
                               responses, idx, sent>>
           ELSE IF \/ ~IsCandidateJSON(text)
                   \/ ~is_pending(loads_candidate(text), pending_candidates)
           THEN /\ Raise("CandidateNotPending")
                /\ UNCHANGED <<file, observations, pending_candidates,
                               responses, idx, sent>>
           ELSE /\ pending_candidates' =
                       remove_pending_candidate(loads_candidate(text),
                                                pending_candidates)
                /\ idx' = idx + 1
                /\ UNCHANGED <<pc, file, observations, responses, sent,
                               error>>

\* run, the else branch: the line is taken for an observation
HandleObservation ==
    /\ AtLine
    /\ \E line \in LineTexts :
          /\ response' = Strip(line)
          /\ response' # <<"{}">>
          /\ ~HasMarker(response')
    /\ IF ~IsJSON(response')
       THEN /\ Raise("JSONDecodeError")
            /\ UNCHANGED <<file, observations, pending_candidates,
                           responses, idx, sent>>
       ELSE IF \/ ~IsObjectJSON(response')
               \/ "contention_failure" \notin DOMAIN loads_object(response')
       THEN /\ Raise("KeyError")
            /\ UNCHANGED <<file, observations, pending_candidates,
                           responses, idx, sent>>
       ELSE LET observation == loads_object(response')
                recorded == observation.contention_failure = FALSE
                obs1 == IF recorded THEN Append(observations, observation)
                        ELSE observations
                file1 == IF recorded THEN save_observation(file, observation)
                         ELSE file
            IN  /\ recorded => Len(file.lines) < MaxLedger
                /\ observations' = obs1
                /\ file' = file1
                /\ IF "candidate" \notin DOMAIN observation
                   THEN /\ Raise("KeyError")
                        /\ UNCHANGED <<pending_candidates, responses, idx,
                                       sent>>
                   ELSE IF ~is_pending(observation.candidate,
                                       pending_candidates)
                   THEN /\ Raise("CandidateNotPending")
                        /\ UNCHANGED <<pending_candidates, responses, idx,
                                       sent>>
                   ELSE IF ~has_candidate_ids(obs1)
                   THEN /\ pending_candidates' =
                               remove_pending_candidate(
                                   observation.candidate, pending_candidates)
                        /\ Raise("KeyError")
                        /\ UNCHANGED <<responses, idx, sent>>
                   ELSE /\ Reply(obs1,
                                 remove_pending_candidate(
                                     observation.candidate,
                                     pending_candidates))
                        /\ idx' = idx + 1
                        /\ UNCHANGED <<pc, responses, error>>

\* a for loop that is left as soon as the stopping predicate is false
EndBatch_early ==
    /\ pc = "batch"
    /\ idx > Len(BatchLines(responses)) \/ ~is_running
    /\ pc' = "loop"
    /\ UNCHANGED <<file, observations, pending_candidates, responses, idx,
                   response, sent, error>>

\* run, the for loop is through the batch: back to the while test
EndBatch ==
    /\ pc = "batch"
    /\ idx > Len(BatchLines(responses))
    /\ pc' = "loop"
    /\ UNCHANGED <<file, observations, pending_candidates, responses, idx,
                   response, sent, error>>

\* a new Optimizer that takes over the pending list of the run that is over
Restart_keeping_pending ==
    /\ pc \in {"returned", "raised"}
    /\ observations' = load_observations(file)
    /\ responses' = <<>>
    /\ idx' = 1
    /\ response' = <<>>
    /\ sent' = <<>>
    /\ error' = "none"
    /\ pc' = "loop"
    /\ UNCHANGED <<file, pending_candidates>>

\* a new Optimizer is constructed on the ledger file of a run that is over
Restart ==
    /\ pc \in {"returned", "raised"}
    /\ observations' = load_observations(file)
    /\ pending_candidates' = <<>>
    /\ responses' = <<>>
    /\ idx' = 1
    /\ response' = <<>>
    /\ sent' = <<>>
    /\ error' = "none"
    /\ pc' = "loop"
    /\ UNCHANGED file

Next ==
    \/ Construct
    \/ Recv
    \/ RecvEOF
    \/ Stop
    \/ HandleAck
    \/ HandleRemove
    \/ HandleObservation
    \/ EndBatch

Spec == Init /\ [][Next]_vars

NextRestart == Next \/ Restart

SpecRestart == Init /\ [][NextRestart]_vars

(***************************************************************************)
(* Helpers of the properties                                               *)
(***************************************************************************)
\* the candidate ids of the observations followed by those of the pending
current_ids ==
    [i \in 1..Len(observations) |-> observations[i].candidate.id]
        \o [i \in 1..Len(pending_candidates) |-> pending_candidates[i].id]

\* no value occurs twice in the sequence s
NoDuplicates(s) == \A i, j \in 1..Len(s) : i # j => s[i] # s[j]

\* this step handles one line of the batch (response' is its text)
LineHandled == AtLine /\ (idx' = idx + 1 \/ pc' = "raised")

\* this step handles one line of the batch without an exception
LineDone == AtLine /\ idx' = idx + 1

Front(s) == SubSeq(s, 1, Len(s) - 1)
Last(s) == s[Len(s)]

\* the sequence s without its k-th entry
WithoutAt(s, k) == [i \in 1..(Len(s) - 1) |-> IF i < k THEN s[i] ELSE s[i + 1]]

\* this step takes exactly the entry c out of the pending list, keeps the
\* others in place and appends at most one new entry
RemovedOne(c) ==
    \E k \in 1..Len(pending_candidates) :
        /\ pending_candidates[k] = c
        /\ Len(pending_candidates') >= Len(pending_candidates) - 1
        /\ SubSeq(pending_candidates', 1, Len(pending_candidates) - 1)
               = WithoutAt(pending_candidates, k)

RemoveLines == {RemoveLine(c) : c \in WireCandidates}

\* the line text names candidate c: a remove command or an observation of c
Names(text, c) ==
    \/ text = RemoveLine(c)
    \/ /\ IsObjectJSON(text)
       /\ "candidate" \in DOMAIN loads_object(text)
       /\ loads_object(text).candidate = c

\* the ids of the observations and of the pending candidates but the last
ids_before_last(obs, pend) ==
    {obs[i].candidate.id : i \in 1..Len(obs)}
        \cup {pend[i].id : i \in 1..(Len(pend) - 1)}

\* i is the least positive integer outside the set ids
LeastFree(i, ids) == i >= 1 /\ i \notin ids /\ \A j \in 1..(i - 1) : j \in ids

(***************************************************************************)
(* C1 - Id uniqueness: from a ledger of pairwise distinct candidate ids,   *)
(* as long as no line has raised, the candidate ids of observations and    *)
(* of pending_candidates together are pairwise distinct.                   *)
(***************************************************************************)
C1_IdUniqueness == pc # "raised" => NoDuplicates(current_ids)

\* lines were handled, a candidate is observed and others are pending
C1_Witness ==
    /\ pc = "batch"
    /\ idx > 1
    /\ observations # <<>>
    /\ pending_candidates # <<>>
    /\ response \in {RemoveLine(c) : c \in WireCandidates}

(***************************************************************************)
(* C2 - Smallest free id: generate_id returns the least positive integer   *)
(* that is the id of no observation and of no pending candidate.           *)
(***************************************************************************)
MinFreeId ==
    CHOOSE i \in 1..(Len(current_ids) + 1) :
        /\ i \notin Range(current_ids)
        /\ \A j \in 1..(i - 1) : j \in Range(current_ids)

C2_SmallestFreeId ==
    has_candidate_ids(observations)
        => generate_id(observations, pending_candidates) = MinFreeId

\* the ids in use have a gap below their maximum, which generate_id returns
C2_Witness ==
    /\ has_candidate_ids(observations)
    /\ \E i \in Range(current_ids) :
          generate_id(observations, pending_candidates) < i
    /\ 1 \in Range(current_ids)
    /\ pending_candidates # <<>>

(***************************************************************************)
(* C3 - Contention-failure exclusion: no observation with                  *)
(* contention_failure = true is in observations or in the ledger, and      *)
(* handling such an observation line whose candidate is pending takes the  *)
(* candidate out of pending_candidates.                                    *)
(***************************************************************************)
C3_ContentionExclusion ==
    [][/\ \A i \in 1..Len(observations') :
             ~observations'[i].contention_failure
       /\ \A i \in 1..Len(file'.lines) :
             ~loads_object(file'.lines[i]).contention_failure
       /\ \A o \in WireObservations :
             (/\ LineHandled
              /\ response' = ObservationLine(o)
              /\ o.contention_failure
              /\ o.candidate \in Range(pending_candidates))
                 => RemovedOne(o.candidate)]_vars

(***************************************************************************)
(* C4 - Pending lifecycle closure, as claimed: when run has returned,      *)
(* every candidate that was pending has been removed, so                   *)
(* pending_candidates is empty.                                            *)
(***************************************************************************)
C4_PendingEmptyAtReturn == pc = "returned" => pending_candidates = <<>>

(***************************************************************************)
(* C4, amended - a line that names a candidate (remove command or          *)
(* observation) is handled without exception only if the candidate is      *)
(* pending, exactly once, and the step removes that one entry; if the      *)
(* candidate is not pending (never added, or removed before) the line      *)
(* raises and removes nothing; no other step of a run removes an entry.    *)
(***************************************************************************)
C4_RemovedAtMostOnce ==
    [][/\ \A c \in WireCandidates :
             /\ (LineDone /\ Names(response', c))
                    => /\ Cardinality({k \in 1..Len(pending_candidates) :
                                          pending_candidates[k] = c}) = 1
                       /\ RemovedOne(c)
             /\ (/\ LineHandled
                 /\ Names(response', c)
                 /\ c \notin Range(pending_candidates))
                    => pc' = "raised" /\ UNCHANGED pending_candidates
       /\ (/\ pc \in {"loop", "batch"}
           /\ ~(LineDone /\ \E c \in WireCandidates : Names(response', c)))
              => /\ Len(pending_candidates') >= Len(pending_candidates)
                 /\ SubSeq(pending_candidates', 1, Len(pending_candidates))
                        = pending_candidates]_vars

\* run has returned on end-of-stream after a remove command went through,
\* and candidates are still pending
C4_Witness ==
    /\ pc = "returned"
    /\ error = "EOFError"
    /\ response \in RemoveLines
    /\ pending_candidates # <<>>

(***************************************************************************)
(* C5 - Stopping predicate, as claimed: no batch is received while         *)
(* len(observations) > MAX_OBSERVATIONS, and run has not returned while    *)
(* len(observations) <= MAX_OBSERVATIONS.                                  *)
(***************************************************************************)
C5_StoppingPredicate ==
    /\ (pc = "batch" /\ idx = 1) => Len(observations) <= MAX_OBSERVATIONS
    /\ pc = "returned" => Len(observations) > MAX_OBSERVATIONS

(***************************************************************************)
(* C5, amended - no batch is received while len(observations) >            *)
(* MAX_OBSERVATIONS, and run has not returned while len(observations) <=   *)
(* MAX_OBSERVATIONS unless the receive reported end-of-stream.             *)
(***************************************************************************)
C5_StopByPredicateOrEOF ==
    /\ (pc = "batch" /\ idx = 1) => Len(observations) <= MAX_OBSERVATIONS
    /\ pc = "returned"
          => Len(observations) > MAX_OBSERVATIONS \/ error = "EOFError"
    /\ error = "EOFError" => Len(observations) <= MAX_OBSERVATIONS

\* run has returned on the stopping predicate after a batch with replies
C5_Witness ==
    /\ pc = "returned"
    /\ error = "none"
    /\ Len(observations) = MAX_OBSERVATIONS + 1
    /\ sent # <<>>

(***************************************************************************)
(* C6 - Ledger round trip: an Optimizer constructed on the ledger file of  *)
(* a run that is over has the observations list of that run, in order and  *)
(* content; constructed where no file exists, it creates an empty ledger   *)
(* and has an empty list.                                                  *)
(***************************************************************************)
C6_LedgerRoundTrip ==
    [][/\ (pc \in {"returned", "raised"} /\ pc' = "loop")
              => observations' = observations
       /\ (pc = "new" /\ pc' = "loop" /\ ~file.exists)
              => /\ file' = [exists |-> TRUE, lines |-> <<>>]
                 /\ observations' = <<>>]_vars

\* a new Optimizer holds an observation that the loop of a run has recorded
C6_Witness ==
    /\ pc = "loop"
    /\ responses = <<>>
    /\ pending_candidates = <<>>
    /\ \E i \in 1..Len(observations) : observations[i] \notin StoredObservations

(***************************************************************************)
(* C7 - One reply per processed line, as claimed: every line handled       *)
(* without exception adds one new candidate to pending_candidates and      *)
(* sends one reply.                                                        *)
(***************************************************************************)
C7_OneReplyPerLine ==
    [][LineDone
          => /\ Len(sent') = Len(sent) + 1
             /\ pending_candidates' # <<>>
             /\ Last(sent') = dumps_reply(Last(pending_candidates'))]_vars

(***************************************************************************)
(* C7, amended - every Ack line and every observation line handled         *)
(* without exception adds one new candidate with a fresh id to             *)
(* pending_candidates and sends it as one reply; a remove command handled  *)
(* without exception generates no candidate and sends no reply.            *)
(***************************************************************************)
C7_OneReplyPerNonRemoveLine ==
    [][LineDone
          => IF HasMarker(response')
             THEN /\ sent' = sent
                  /\ Len(pending_candidates') = Len(pending_candidates) - 1
             ELSE /\ pending_candidates' # <<>>
                  /\ sent' = Append(sent,
                                    dumps_reply(Last(pending_candidates')))
                  /\ Last(pending_candidates').id
                        \notin ids_before_last(observations',
                                               pending_candidates')]_vars

\* a batch of two lines, a remove command the last, has got one reply
C7_Witness ==
    /\ pc = "batch"
    /\ idx = 3
    /\ response \in RemoveLines
    /\ Len(sent) = 1

(***************************************************************************)
(* C8 - A remove command that names a candidate equal to no pending        *)
(* candidate raises the candidate-not-pending exception and leaves         *)
(* observations, the ledger file and pending_candidates as they were.      *)
(***************************************************************************)
C8_RemoveNotPending ==
    [][\A c \in WireCandidates :
          (/\ LineHandled
           /\ response' = RemoveLine(c)
           /\ c \notin Range(pending_candidates))
              => /\ pc' = "raised"
                 /\ error' = "CandidateNotPending"
                 /\ UNCHANGED <<observations, file, pending_candidates>>]_vars

\* a remove command has raised although a pending candidate has its id
C8_Witness ==
    /\ pc = "raised"
    /\ error = "CandidateNotPending"
    /\ \E c \in WireCandidates :
          /\ response = RemoveLine(c)
          /\ \E i \in 1..Len(pending_candidates) :
                /\ pending_candidates[i].id = c.id
                /\ pending_candidates[i].x # c.x

(***************************************************************************)
(* C9 - An Ack line leaves observations and the ledger file unchanged and  *)
(* removes nothing from pending_candidates; it appends one candidate to    *)
(* pending_candidates and sends one reply.                                 *)
(***************************************************************************)
C9_AckFrame ==
    [][(LineHandled /\ response' = AckLine)
          => /\ pc' = "batch"
             /\ UNCHANGED <<observations, file>>
             /\ Len(pending_candidates') = Len(pending_candidates) + 1
             /\ Front(pending_candidates') = pending_candidates
             /\ Len(sent') = Len(sent) + 1
             /\ Front(sent') = sent]_vars

\* a batch of two Ack lines on an empty history: two pending, two replies
C9_Witness ==
    /\ pc = "batch"
    /\ idx = 3
    /\ response = AckLine
    /\ Len(sent) = 2
    /\ Len(pending_candidates) = 2
    /\ observations = <<>>
    /\ file.lines = <<>>

(***************************************************************************)
(* C10 - Resolved observation: an observation line with                    *)
(* contention_failure = false whose candidate is pending appends that      *)
(* observation to observations and to the ledger, removes the candidate    *)
(* from pending_candidates and sends one reply with a fresh candidate      *)
(* whose id is the least positive integer used by no observation and no    *)
(* other pending candidate.                                                *)
(***************************************************************************)
C10_ResolvedObservation ==
    [][\A o \in WireObservations :
          (/\ LineHandled
           /\ response' = ObservationLine(o)
           /\ ~o.contention_failure
           /\ o.candidate \in Range(pending_candidates))
              => /\ observations' = Append(observations, o)
                 /\ file'.lines = Append(file.lines, dumps_observation(o))
                 /\ RemovedOne(o.candidate)
                 /\ Len(pending_candidates') = Len(pending_candidates)
                 /\ sent' = Append(sent,
                                   dumps_reply(Last(pending_candidates')))
                 /\ LeastFree(Last(pending_candidates').id,
                              ids_before_last(observations',
                                              pending_candidates'))]_vars

(***************************************************************************)
(* C11 - Single flush per batch, as claimed: nothing is written on the     *)
(* channel while lines of the batch are still to be handled, so when a     *)
(* line raises no reply of the batch has been sent.                        *)
(***************************************************************************)
C11_SingleFlush ==
    /\ AtLine => sent = <<>>
    /\ pc = "raised" => sent = <<>>

(***************************************************************************)
(* C11, amended - the reply of a line is sent by a write of its own in     *)
(* the step that handles the line, before the next line is looked at;      *)
(* the end of the batch writes nothing, and a line that raises leaves the  *)
(* replies of the earlier lines of the batch sent.                         *)
(***************************************************************************)
C11_SendPerLine ==
    [][/\ (LineDone /\ ~HasMarker(response'))
              => /\ pending_candidates' # <<>>
                 /\ sent' = Append(sent,
                                   dumps_reply(Last(pending_candidates')))
       /\ (pc = "batch" /\ ~(LineDone /\ ~HasMarker(response')))
              => sent' = sent]_vars

\* a line has raised after the reply of an earlier line of the batch was sent
C11_Witness ==
    /\ pc = "raised"
    /\ idx = 2
    /\ Len(sent) = 1

(***************************************************************************)
(* C12 - A remove command whose candidate is pending removes exactly that  *)
(* candidate from pending_candidates, leaves observations and the ledger   *)
(* file unchanged, and keeps every other pending candidate pending.        *)
(***************************************************************************)
C12_RemoveFrame ==
    [][\A c \in WireCandidates :
          (/\ LineHandled
           /\ response' = RemoveLine(c)
           /\ c \in Range(pending_candidates))
              => /\ pc' = "batch"
                 /\ UNCHANGED <<observations, file>>
                 /\ c \notin Range(pending_candidates')
                 /\ \E k \in 1..Len(pending_candidates) :
                       /\ pending_candidates[k] = c
                       /\ pending_candidates'
                             = WithoutAt(pending_candidates, k)]_vars

\* a remove command went through and another candidate with the same
\* parameter value is still pending
C12_Witness ==
    /\ pc = "batch"
    /\ idx > 1
    /\ \E c \in WireCandidates :
          /\ response = RemoveLine(c)
          /\ \E i \in 1..Len(pending_candidates) :
                pending_candidates[i].x = c.x

(***************************************************************************)
(* C13 - No double-counted observation: an observation line with           *)
(* contention_failure = false whose candidate is not pending raises the    *)
(* candidate-not-pending exception and is not recorded: observations and   *)
(* the ledger file are as before the line.                                 *)
(***************************************************************************)
C13_NoDoubleCount ==
    [][\A o \in WireObservations :
          (/\ LineHandled
           /\ response' = ObservationLine(o)
           /\ ~o.contention_failure
           /\ o.candidate \notin Range(pending_candidates))
              => /\ pc' = "raised"
                 /\ ~HasMarker(response') => error' = "CandidateNotPending"
                 /\ UNCHANGED <<observations, file>>]_vars

\* the line is none of the three shapes of the protocol: not the Ack literal,
\* not the marker followed by a JSON candidate, not a JSON object with the
\* fields candidate, result and contention_failure
Malformed(text) ==
    /\ text # AckLine
    /\ text \notin RemoveLines
    /\ ~IsObservationJSON(text)

(***************************************************************************)
(* C14 - Malformed lines are fatal and leave the ledger valid: a line that *)
(* is not the Ack literal, not a marker followed by a JSON candidate and   *)
(* not a JSON object with all of candidate, result and contention_failure  *)
(* aborts the loop and changes none of observations, the ledger file and   *)
(* pending_candidates; hence every line of the ledger is an observation    *)
(* with a candidate that carries an id.                                    *)
(***************************************************************************)
C14_MalformedIsFatal ==
    [][/\ (LineHandled /\ Malformed(response'))
              => /\ pc' = "raised"
                 /\ UNCHANGED <<observations, file, pending_candidates>>
       /\ \A i \in 1..Len(file'.lines) :
              IsObservationJSON(file'.lines[i])]_vars

\* the line begins with the marker
BeginsWithMarker(text) ==
    text # <<>> /\ Head(text) = HEADER_REMOVE_CANDIDATE

(***************************************************************************)
(* C15 - Classification by prefix: a line is a remove command if and only  *)
(* if it begins with the marker; a line that is a JSON observation whose   *)
(* text contains the marker at a later position is classified and applied  *)
(* as an observation: it is decoded, recorded when contention_failure is   *)
(* false, its candidate leaves the pending list and a reply is sent.       *)
(***************************************************************************)
C15_ClassifyByPrefix ==
    [][/\ (LineHandled /\ BeginsWithMarker(response'))
              => UNCHANGED <<observations, file, sent>>
       /\ \A o \in WireObservations :
              (/\ LineHandled
               /\ response' = ObservationLine(o)
               /\ ~BeginsWithMarker(response')
               /\ o.candidate \in Range(pending_candidates))
                  => /\ error' # "JSONDecodeError"
                     /\ pc' = "batch"
                     /\ observations' =
                            IF o.contention_failure THEN observations
                            ELSE Append(observations, o)
                     /\ RemovedOne(o.candidate)
                     /\ Len(sent') = Len(sent) + 1]_vars

(***************************************************************************)
(* C16 - Batch splitting loses no message: when the for loop over a        *)
(* received batch is over, every non-empty newline-separated segment of    *)
(* the batch has been handled, the last one also when no newline follows   *)
(* it; only the empty segment after the final newline is discarded.        *)
(***************************************************************************)
C16_NoMessageLost ==
    (pc = "batch" /\ ~AtLine)
        => \A k \in 1..Len(Split(responses)) :
              Split(responses)[k] # <<>> => k < idx

C18_GracefulStop ==
    [][/\ (pc = "loop" /\ is_running /\ pc' # "batch")
              => /\ pc' = "returned"
                 /\ error' = "EOFError"
                 /\ UNCHANGED <<observations, file, pending_candidates,
                                responses, sent>>
       /\ pc # "returned"]_vars

\* run has returned on end-of-stream after batches were received, replies
\* sent and an observation recorded, with a candidate still pending
C18_Witness ==
    /\ pc = "returned"
    /\ error = "EOFError"
    /\ observations # <<>>
    /\ pending_candidates # <<>>
    /\ sent # <<>>

(***************************************************************************)
(* C19 - Append-only store mirrored by the ledger: after every step of a   *)
(* run the observations list equals, in order and content, the records of  *)
(* the ledger file, and the list before the step is a prefix of the list   *)
(* after it: no entry is modified, reordered or deleted.                   *)
(***************************************************************************)
C19_AppendOnlyMirror ==
    [][/\ observations' = load_observations(file')
       /\ Len(observations') >= Len(observations)
       /\ SubSeq(observations', 1, Len(observations)) = observations]_vars

\* a line of a batch has recorded an observation behind the one the ledger
\* held when the Optimizer was constructed
C19_Witness ==
    /\ pc = "batch"
    /\ idx > 1
    /\ IsObservationJSON(response)
    /\ Len(observations) = 2
    /\ Len(file.lines) = 2

\* the ids generate_id reads from the observations
observation_ids(obs) == {obs[k].candidate.id : k \in 1..Len(obs)}

====
